---------------------------- MODULE Spec2Model ----------------------------
(***************************************************************************)
(* A model of utils/losses.py: the SimCLR_TT_Loss module (mask             *)
(* construction and forward), VICReg_TT_Loss.off_diagonal and              *)
(* VICReg_TT_Loss.forward with its diagnostic attributes.                  *)
(*                                                                         *)
(* Tensors are sequences (1-D) and sequences of rows (2-D).  The source    *)
(* indexes from 0, sequences from 1: index k of the source is k + 1 here.  *)
(* A similarity divided by the temperature is kept as the exact quotient   *)
(* <<numerator, temperature>>.  VICReg's real numbers are fixed-point      *)
(* integers in units of epsilon = 0.0001 with truncating division.         *)
(***************************************************************************)
EXTENDS Integers, Sequences, FiniteSets, TLC

VARIABLES
    self,        \* the SimCLR_TT_Loss instance (or the failed construction)
    N_negative,  \* config.N_negative: <<>> is None, <<k>> is the int k
    call,        \* the last SimCLR_TT_Loss.forward call and what it built
    od,          \* an off_diagonal call: its argument and its outcome
    cfg,         \* config.BATCH_SIZE, HIDDEN_DIM, VICREG_*_COEFF
    vic,         \* the VICReg_TT_Loss instance's diagnostic attributes
    last,        \* the last completed sequential VICReg forward call
    thr          \* per thread: an in-flight VICReg forward call

vars == <<self, N_negative, call, od, cfg, vic, last, thr>>

----------------------------------------------------------------------------
(* Bounds of the model *)

MaxBatch == 2      \* batch_size ranges over -1..MaxBatch
MaxRows == 3       \* x and x_pair have 0..MaxRows rows
MaxCap == 3        \* config.N_negative ranges over None, 0..MaxCap
MaxSeed == 1       \* states of the random generator: 0..MaxSeed

Embeddings == {1, 2}            \* one-dimensional embedding vectors
Temperatures == {-1, 0, 2}
SimFuncs == {"dot", "shift"}    \* the injected sim_func: symmetric / not

Max(a, b) == IF a >= b THEN a ELSE b
Min(a, b) == IF a <= b THEN a ELSE b

\* The elements of a finite set of integers in increasing order.
SortedSeq(S) ==
    [n \in 1..Cardinality(S) |->
        CHOOSE j \in S : Cardinality({k \in S : k < j}) = n - 1]

RECURSIVE Flatten(_)
Flatten(rows) ==
    IF rows = <<>> THEN <<>> ELSE Head(rows) \o Flatten(Tail(rows))

\* A 1-D / 2-D tensor with its elements computed (a value, not an expression).
Tensor1(t) == t \o <<>>
Tensor2(t) == [i \in 1..Len(t) |-> Tensor1(t[i])] \o <<>>

----------------------------------------------------------------------------
(* SimCLR_TT_Loss.mask_correlated_samples *)

\* torch.ones(n, n, dtype=torch.bool)
ones(n) == [i \in 1..n |-> [j \in 1..n |-> TRUE]]

\* mask.fill_diagonal_(0)
fill_diagonal(mask) ==
    [i \in 1..Len(mask) |-> [j \in 1..Len(mask) |-> IF i = j THEN FALSE ELSE mask[i][j]]]

\* mask[r, c] = 0 with the source's 0-based r, c
SetZero(mask, r, c) == [mask EXCEPT ![r + 1][c + 1] = FALSE]

RECURSIVE MaskLoopOneSided(_, _, _)
MaskLoopOneSided(mask, batch_size, i) ==
    IF i >= batch_size THEN mask
    ELSE MaskLoopOneSided(SetZero(mask, i, batch_size + i), batch_size, i + 1)

\* for i in range(batch_size): mask[i, bs + i] = 0; mask[bs + i, i] = 0
RECURSIVE MaskLoop(_, _, _)
MaskLoop(mask, batch_size, i) ==
    IF i >= batch_size THEN mask
    ELSE MaskLoop(SetZero(SetZero(mask, i, batch_size + i), batch_size + i, i),
                  batch_size, i + 1)

\* faulty variant: the loop clears only the upper offset diagonal
mask_upper_only(batch_size) ==
    MaskLoopOneSided(fill_diagonal(ones(2 * batch_size)), batch_size, 0)

mask_correlated_samples(batch_size) ==
    MaskLoop(fill_diagonal(ones(2 * batch_size)), batch_size, 0)

----------------------------------------------------------------------------
(* SimCLR_TT_Loss.forward, statement by statement *)

\* torch.cat((a, b), dim=0)
cat(a, b) == a \o b

\* the injected similarity of two one-dimensional embeddings
ApplySim(f, u, v) == IF f = "dot" THEN u * v ELSE 3 * u + v

\* sim = self.sim_func(z, z) / self.temperature
SimMatrix(s, z) ==
    [i \in 1..Len(z) |-> [j \in 1..Len(z) |->
        <<ApplySim(s.sim_func, z[i], z[j]), s.temperature>>]]

\* torch.diag(m, k) of a square matrix: the k-th diagonal, empty when out of range
diag(m, k) ==
    IF k >= 0 THEN [i \in 1..Max(Len(m) - k, 0) |-> m[i][i + k]]
    ELSE [i \in 1..Max(Len(m) + k, 0) |-> m[i - k][i]]

\* faulty variant: the two diagonals concatenated in the other order
PositiveVectorSwapped(s, sim) ==
    cat(diag(sim, -s.batch_size), diag(sim, s.batch_size))

\* torch.cat((sim_i_j, sim_j_i), dim=0), before .reshape(N, 1)
PositiveVector(s, sim) == cat(diag(sim, s.batch_size), diag(sim, -s.batch_size))

\* .reshape(N, 1) succeeds only on exactly N elements
PositiveReshapeOK(s, sim) == Len(PositiveVector(s, sim)) = 2 * s.batch_size

positive_samples(s, sim) ==
    [i \in 1..(2 * s.batch_size) |-> <<PositiveVector(s, sim)[i]>>]

\* sim[self.mask] needs a mask of sim's shape
MaskIndexOK(s, sim) == Len(sim) = Len(s.mask)

\* sim[self.mask]: the entries under a true mask entry, row-major, as a 1-D tensor
masked_select(sim, mask) ==
    Flatten([i \in 1..Len(sim) |->
        [n \in 1..Cardinality({j \in 1..Len(sim) : mask[i][j]}) |->
            sim[i][SortedSeq({j \in 1..Len(sim) : mask[i][j]})[n]]]])

\* .reshape(N, -1): the -1 cannot be inferred for 0 elements (a RuntimeError),
\* and the element count must be a multiple of N
NegativeReshapeOK(flat, N) ==
    /\ Len(flat) > 0
    /\ N > 0
    /\ Len(flat) % N = 0

reshape_rows(flat, N) ==
    [i \in 1..N |-> SubSeq(flat, (i - 1) * (Len(flat) \div N) + 1, i * (Len(flat) \div N))]

\* config.N_negative as a condition: None and 0 are false
Truthy(c) == c # <<>> /\ c[1] # 0

\* torch.rand as a generator: entry (i, j) of the sample drawn in state `seed`
Rand(seed, i, j) == ((seed + 2) * (5 * i + 3 * j) + i * j * (seed + 1)) % 7

rand(seed, rows, cols) == [i \in 1..rows |-> [j \in 1..cols |-> Rand(seed, i, j)]]

\* .argsort(dim=1): per row, the indices in increasing order of value
ArgSortRow(r) ==
    [n \in 1..Len(r) |->
        CHOOSE j \in 1..Len(r) :
            Cardinality({k \in 1..Len(r) : r[k] < r[j] \/ (r[k] = r[j] /\ k < j)}) = n - 1]

argsort(m) == [i \in 1..Len(m) |-> ArgSortRow(m[i])]

\* torch.take_along_dim(t, idx, dim=1)
take_along_dim(t, idx) ==
    [i \in 1..Len(t) |-> [j \in 1..Len(idx[i]) |-> t[i][idx[i][j]]]]

\* faulty variant: one column fewer than asked for
slice_short(t, K) == [i \in 1..Len(t) |-> SubSeq(t[i], 1, Min(K - 1, Len(t[i])))]

\* t[:, :K] for K >= 0: slicing past the end keeps every column
slice_cols(t, K) == [i \in 1..Len(t) |-> SubSeq(t[i], 1, Min(K, Len(t[i])))]

\* torch.zeros(N).long()
zeros(N) == [i \in 1..N |-> 0]

\* torch.cat((positive_samples, negative_samples), dim=1)
cat_cols(p, n) == [i \in 1..Len(p) |-> p[i] \o n[i]]

NoCall == [status |-> "none", x |-> <<>>, x_pair |-> <<>>, seed |-> 0, sim |-> <<>>,
           negative_all |-> <<>>, idx |-> <<>>, negative_samples |-> <<>>,
           logits |-> <<>>, labels |-> <<>>]

\* what forward does on (x, x_pair) with the generator in state seed
forward(s, nneg, x, x_pair, seed) ==
    LET N == 2 * s.batch_size
        z == cat(x, x_pair)
        sim == SimMatrix(s, z)
        failed == [NoCall EXCEPT !.status = "RuntimeError", !.x = x,
                                 !.x_pair = x_pair, !.seed = seed, !.sim = sim]
    IN  IF ~PositiveReshapeOK(s, sim) THEN failed
        ELSE IF ~MaskIndexOK(s, sim) THEN failed
        ELSE IF ~NegativeReshapeOK(masked_select(sim, s.mask), N) THEN failed
        ELSE
          LET pos == positive_samples(s, sim)
              all == reshape_rows(masked_select(sim, s.mask), N)
              idx == IF Truthy(nneg)
                     THEN argsort(rand(seed, N, Len(all[1])))
                     ELSE <<>>
              neg == IF Truthy(nneg)
                     THEN slice_cols(take_along_dim(all, idx), nneg[1])
                     ELSE all
          IN  [status |-> "ok", x |-> x, x_pair |-> x_pair, seed |-> seed,
               sim |-> sim, negative_all |-> all, idx |-> idx,
               negative_samples |-> neg,
               logits |-> cat_cols(pos, neg), labels |-> zeros(N)]

----------------------------------------------------------------------------
(* The SimCLR_TT_Loss instance and its operations *)

NoSelf == [status |-> "none", batch_size |-> 0, temperature |-> 0,
           sim_func |-> "dot", mask |-> <<>>]

\* SimCLR_TT_Loss.__init__: torch.ones refuses a negative dimension; nothing
\* else is validated
SimCLR_TT_Loss(sim_func, batch_size, temperature) ==
    IF batch_size < 0
    THEN [NoSelf EXCEPT !.status = "RuntimeError", !.batch_size = batch_size,
                        !.temperature = temperature, !.sim_func = sim_func]
    ELSE [status |-> "ok", batch_size |-> batch_size, temperature |-> temperature,
          sim_func |-> sim_func, mask |-> mask_correlated_samples(batch_size)]

NNegValues == {<<>>} \cup {<<k>> : k \in 0..MaxCap}

Batches1D == UNION {[1..n -> Embeddings] : n \in 0..MaxRows}

OdIdle == [status |-> "none", x |-> <<>>, out |-> <<>>]
CfgIdle == [BATCH_SIZE |-> 2, HIDDEN_DIM |-> 1, SIM |-> 0, STD |-> 0, COV |-> 0]
VicIdle == [positive_distance |-> <<>>, log_prob |-> <<>>, log_cond_prob |-> <<>>]
NoLocals == [repr_loss |-> 0, std_loss |-> 0, cov_loss |-> 0]
LastIdle == [called |-> FALSE, x |-> <<>>, y |-> <<>>, l |-> NoLocals, loss |-> 0,
             overwrote |-> FALSE]
Threads == {1, 2}
ThreadIdle == [pc |-> "idle", x |-> <<>>, y |-> <<>>, l |-> NoLocals, ret |-> 0]
ThrIdle == [t \in Threads |-> ThreadIdle]

InitSim ==
    /\ self = NoSelf
    /\ N_negative \in NNegValues
    /\ call = NoCall
    /\ od = OdIdle /\ cfg = CfgIdle /\ vic = VicIdle /\ last = LastIdle
    /\ thr = ThrIdle

Construct ==
    /\ self.status = "none"
    /\ \E batch_size \in -1..MaxBatch, temperature \in Temperatures, f \in SimFuncs :
           self' = SimCLR_TT_Loss(f, batch_size, temperature)
    /\ UNCHANGED <<N_negative, call, od, cfg, vic, last, thr>>

Forward ==
    /\ self.status = "ok"
    /\ call.status = "none"
    /\ \E x \in Batches1D, x_pair \in Batches1D, seed \in 0..MaxSeed :
           call' = forward(self, N_negative, x, x_pair, seed)
    /\ UNCHANGED <<self, N_negative, od, cfg, vic, last, thr>>

NextSim == Construct \/ Forward

SpecSim == InitSim /\ [][NextSim]_vars

----------------------------------------------------------------------------
(* Claims about SimCLR_TT_Loss, checked under SpecSim *)

\* The partner of the source's row k among 2N rows, as a sequence index.
Partner(k, N) == ((k + N) % (2 * N)) + 1

\* Row i (0-based) of sim without columns i and (i + N) mod 2N, by increasing column.
OwnNegatives(sim, i, N) ==
    [n \in 1..(2 * N - 2) |->
        sim[i + 1][SortedSeq({j \in 1..(2 * N) : j # i + 1 /\ j # Partner(i, N)})[n]]]

WellFormedCall ==
    /\ call.status # "none"
    /\ Len(call.x) = self.batch_size
    /\ Len(call.x_pair) = self.batch_size

\* C1: for batch_size N >= 1 the constructed mask is a 2N x 2N boolean matrix,
\* symmetric, false exactly at (i, i) and (i, (i + N) mod 2N), true elsewhere.
MaskContract ==
    (self.status = "ok" /\ self.batch_size >= 1) =>
        LET N == self.batch_size
            m == self.mask
        IN  /\ Len(m) = 2 * N
            /\ \A i \in 0..(2 * N - 1) :
                  /\ Len(m[i + 1]) = 2 * N
                  /\ \A j \in 0..(2 * N - 1) :
                        /\ m[i + 1][j + 1] \in BOOLEAN
                        /\ m[i + 1][j + 1] = (j # i /\ j # (i + N) % (2 * N))
                        /\ m[i + 1][j + 1] = m[j + 1][i + 1]

MaskBuilt ==
    /\ self.status = "ok"
    /\ self.batch_size >= 2
    /\ self.mask[1][2]
    /\ ~self.mask[1][self.batch_size + 1]

ShapeMismatchRaised ==
    (/\ call.status # "none"
     /\ \/ Len(call.x) # Len(call.x_pair)
        \/ Len(call.x) # self.batch_size)
        => call.status = "RuntimeError"

ConstructionRejectsInvalid ==
    self.status = "ok" => (self.batch_size > 0 /\ self.temperature > 0)

----------------------------------------------------------------------------
(* VICReg_TT_Loss.off_diagonal *)

MaxDim == 3        \* off_diagonal arguments have 1..MaxDim rows and columns

\* n, m = x.shape; assert n == m
AssertSquare(x) == Len(x) = Len(x[1])

\* t[:-1]
drop_last(t) == SubSeq(t, 1, Len(t) - 1)

\* t.view(r, c)
view(t, r, c) == [i \in 1..r |-> SubSeq(t, (i - 1) * c + 1, i * c)]

\* faulty variant: t[:, :-1] instead of t[:, 1:]
off_diagonal_last_column(x) ==
    LET v == Tensor2(view(drop_last(Flatten(x)), Len(x) - 1, Len(x) + 1))
    IN  Flatten([i \in 1..(Len(x) - 1) |-> drop_last(v[i])])

\* x.flatten()[:-1].view(n - 1, n + 1)[:, 1:].flatten()
off_diagonal(x) ==
    LET v == Tensor2(view(drop_last(Flatten(x)), Len(x) - 1, Len(x) + 1))
    IN  Flatten([i \in 1..(Len(x) - 1) |-> Tail(v[i])])

Matrices ==
    UNION {[1..n -> [1..m -> {0, 1}]] : n \in 1..MaxDim, m \in 1..MaxDim}

InitOff ==
    /\ od \in {[OdIdle EXCEPT !.x = x] : x \in Matrices}
    /\ self = NoSelf /\ N_negative = <<>> /\ call = NoCall
    /\ cfg = CfgIdle /\ vic = VicIdle /\ last = LastIdle /\ thr = ThrIdle

OffDiagonal ==
    /\ od.status = "none"
    /\ od' = IF AssertSquare(od.x)
             THEN [od EXCEPT !.status = "ok", !.out = off_diagonal(od.x)]
             ELSE [od EXCEPT !.status = "AssertionError"]
    /\ UNCHANGED <<self, N_negative, call, cfg, vic, last, thr>>

NextOff == OffDiagonal

SpecOff == InitOff /\ [][NextOff]_vars

\* The entries (i, j), i # j, of x in row-major order.
OffDiagonalEntries(x) ==
    Flatten([i \in 1..Len(x) |->
        [n \in 1..(Len(x) - 1) |-> x[i][IF n < i THEN n ELSE n + 1]]])

\* C6: on an n x n matrix, n >= 1, off_diagonal returns exactly the n*n - n
\* entries (i, j) with i # j, each once, in row-major order; a non-square
\* argument fails the assertion.
OffDiagonalExact ==
    od.status # "none" =>
        IF Len(od.x) = Len(od.x[1])
        THEN /\ od.status = "ok"
             /\ Len(od.out) = Len(od.x) * Len(od.x) - Len(od.x)
             /\ od.out = OffDiagonalEntries(od.x)
        ELSE od.status = "AssertionError"

OffDiagonalTaken ==
    /\ od.status = "ok"
    /\ Len(od.x) = 3
    /\ \A i \in 1..3 : \A j \in 1..3 : od.x[i][j] = (IF i = j THEN 1 ELSE 0)
    /\ od.out = <<0, 0, 0, 0, 0, 0>>

----------------------------------------------------------------------------
(* VICReg_TT_Loss.forward: the arithmetic, in units of epsilon = 0.0001 *)

EpsInv == 10000    \* 1 / 0.0001: the real number 1 in fixed point
MaxBatchV == 2     \* config.BATCH_SIZE ranges over 2..MaxBatchV
MaxHidden == 2     \* config.HIDDEN_DIM ranges over 1..MaxHidden

RECURSIVE SumSeq(_)
SumSeq(t) == IF t = <<>> THEN 0 ELSE Head(t) + SumSeq(Tail(t))

\* the product of two fixed-point numbers
FMul(a, b) == (a * b) \div EpsInv

\* the largest r in lo..hi with r * r <= n
RECURSIVE SqrtSearch(_, _, _)
SqrtSearch(n, lo, hi) ==
    IF lo >= hi THEN lo
    ELSE LET mid == (lo + hi + 1) \div 2
         IN  IF mid * mid <= n THEN SqrtSearch(n, mid, hi)
             ELSE SqrtSearch(n, lo, mid - 1)

\* torch.sqrt of the fixed-point number v: sqrt(v / EpsInv) * EpsInv
sqrt(v) == SqrtSearch(v * EpsInv, 0, 40000)

\* an integer-valued batch as a fixed-point tensor
Fixed(x) == [i \in 1..Len(x) |-> [j \in 1..Len(x[1]) |-> EpsInv * x[i][j]]]

Column(t, j) == [i \in 1..Len(t) |-> t[i][j]]

\* torch.mean of a 1-D tensor
mean(t) == SumSeq(t) \div Len(t)

\* F.mse_loss(x, y): the mean over all elements of (x - y)^2
mse_loss(x, y) ==
    mean(Flatten([i \in 1..Len(x) |->
        [j \in 1..Len(x[1]) |-> FMul(x[i][j] - y[i][j], x[i][j] - y[i][j])]]))

\* x - x.mean(dim=0)
center(x) ==
    LET mu == Tensor1([j \in 1..Len(x[1]) |-> mean(Column(x, j))])
    IN  Tensor2([i \in 1..Len(x) |-> [j \in 1..Len(x[1]) |-> x[i][j] - mu[j]]])

\* x.var(dim=0): the unbiased variance of each column
var(x) ==
    LET mu == Tensor1([j \in 1..Len(x[1]) |-> mean(Column(x, j))])
    IN  Tensor1([j \in 1..Len(x[1]) |->
            SumSeq([i \in 1..Len(x) |-> FMul(x[i][j] - mu[j], x[i][j] - mu[j])])
            \div (Len(x) - 1)])

\* faulty variant: the standard deviation without the epsilon floor
std_no_eps(x) ==
    LET v == var(x) IN Tensor1([j \in 1..Len(x[1]) |-> sqrt(v[j])])

\* torch.sqrt(x.var(dim=0) + 0.0001)
std(x) ==
    LET v == var(x) IN Tensor1([j \in 1..Len(x[1]) |-> sqrt(v[j] + 1)])

\* F.relu
relu(v) == Max(v, 0)

\* torch.mean(F.relu(1 - std_x)) / 2 + torch.mean(F.relu(1 - std_y)) / 2
std_loss(x, y) ==
    LET std_x == std(x)
        std_y == std(y)
    IN  mean([j \in 1..Len(std_x) |-> relu(EpsInv - std_x[j])]) \div 2
        + mean([j \in 1..Len(std_y) |-> relu(EpsInv - std_y[j])]) \div 2

\* (x.T @ x) / (config.BATCH_SIZE - 1)
cov(c, x) ==
    Tensor2([j \in 1..Len(x[1]) |-> [k \in 1..Len(x[1]) |->
        (SumSeq([i \in 1..Len(x) |-> x[i][j] * x[i][k]]) \div EpsInv)
        \div (c.BATCH_SIZE - 1)]])

\* self.off_diagonal(m).pow_(2).sum().div(config.HIDDEN_DIM)
cov_term(c, m) ==
    LET o == off_diagonal(m)
    IN  SumSeq([n \in 1..Len(o) |-> FMul(o[n], o[n])]) \div c.HIDDEN_DIM

cov_loss(c, x, y) == cov_term(c, cov(c, x)) + cov_term(c, cov(c, y))

\* the locals of forward once line 153 has run, for integer batches x, y
Locals(c, x, y) ==
    LET x0 == Tensor2(Fixed(x))
        y0 == Tensor2(Fixed(y))
        x1 == center(x0)
        y1 == center(y0)
    IN  [repr_loss |-> mse_loss(x0, y0),
         std_loss |-> std_loss(x1, y1),
         cov_loss |-> cov_loss(c, x1, y1)]

\* self.positive_distance = repr_loss.detach().mean()
SetPositiveDistance(v, l) == [v EXCEPT !.positive_distance = <<l.repr_loss>>]

\* faulty variant: log_prob is kept once it has been set
SetLogProbOnce(v, l) ==
    IF v.log_prob = <<>> THEN [v EXCEPT !.log_prob = <<- l.cov_loss - l.std_loss>>]
    ELSE v

\* self.log_prob = (- cov_loss - std_loss).detach()
SetLogProb(v, l) == [v EXCEPT !.log_prob = <<- l.cov_loss - l.std_loss>>]

\* self.log_cond_prob = -repr_loss.detach()
SetLogCondProb(v, l) == [v EXCEPT !.log_cond_prob = <<- l.repr_loss>>]

\* faulty variant: the invariance term is read back from the attribute
LossFromAttribute(v, c, l) ==
    c.SIM * v.positive_distance[1] + c.STD * l.std_loss + c.COV * l.cov_loss

\* loss = SIM_COEFF * repr_loss + STD_COEFF * std_loss + COV_COEFF * cov_loss,
\* evaluated on the instance v
Loss(v, c, l) == c.SIM * l.repr_loss + c.STD * l.std_loss + c.COV * l.cov_loss

----------------------------------------------------------------------------
(* VICReg_TT_Loss: configuration, inputs, sequential calls *)

Coefficients == {<<25, 25, 1>>, <<1, 2, 3>>}   \* VICREG_SIM/STD/COV_COEFF

Configs ==
    {[BATCH_SIZE |-> b, HIDDEN_DIM |-> h, SIM |-> k[1], STD |-> k[2], COV |-> k[3]] :
        b \in 2..MaxBatchV, h \in 1..MaxHidden, k \in Coefficients}

\* embedding rows of dimension d: the zero vector, the first unit vector, all ones
RowVectors(d) ==
    {[j \in 1..d |-> 0], [j \in 1..d |-> IF j = 1 THEN 1 ELSE 0], [j \in 1..d |-> 1]}

BatchesOf(c) == [1..c.BATCH_SIZE -> RowVectors(c.HIDDEN_DIM)]

ZeroBatch(c) == [i \in 1..c.BATCH_SIZE |-> [j \in 1..c.HIDDEN_DIM |-> 0]]

Reversed(x) == [i \in 1..Len(x) |-> x[Len(x) + 1 - i]]

\* the paired batches y a call may pass with x
Views(c, x) == {x, ZeroBatch(c), Reversed(x)}

\* the whole of forward(x, y) on the instance v: the attributes it leaves
\* and the loss it returns
forward_vicreg(v, c, x, y) ==
    LET l == Locals(c, x, y)
        after == SetLogCondProb(SetLogProb(SetPositiveDistance(v, l), l), l)
    IN  [vic |-> after, l |-> l, loss |-> Loss(after, c, l)]

\* every attribute was set before the call and holds another value after it
Overwrites(before, after) ==
    /\ before.positive_distance \notin {<<>>, after.positive_distance}
    /\ before.log_prob \notin {<<>>, after.log_prob}
    /\ before.log_cond_prob \notin {<<>>, after.log_cond_prob}

InitVic ==
    /\ cfg \in Configs
    /\ vic = VicIdle
    /\ last = LastIdle
    /\ thr = ThrIdle
    /\ self = NoSelf /\ N_negative = <<>> /\ call = NoCall /\ od = OdIdle

VicForward ==
    /\ \E x \in BatchesOf(cfg) : \E y \in Views(cfg, x) :
          LET r == forward_vicreg(vic, cfg, x, y)
          IN  /\ vic' = r.vic
              /\ last' = [called |-> TRUE, x |-> x, y |-> y, l |-> r.l, loss |-> r.loss,
                           overwrote |-> Overwrites(vic, r.vic)]
    /\ UNCHANGED <<self, N_negative, call, od, cfg, thr>>

NextVic == VicForward

SpecVic == InitVic /\ [][NextVic]_vars

(* Two forward calls on one instance, interleaved statement by statement *)

\* the calls a thread may make
ThreadCalls(c) ==
    {<<x, y>> : x \in {ZeroBatch(c), [ZeroBatch(c) EXCEPT ![1] = [j \in 1..c.HIDDEN_DIM |-> 1]]},
                y \in {ZeroBatch(c), [ZeroBatch(c) EXCEPT ![2] = [j \in 1..c.HIDDEN_DIM |-> 1]]}}

InitConc ==
    /\ cfg \in Configs
    /\ vic = VicIdle
    /\ thr = ThrIdle
    /\ last = LastIdle
    /\ self = NoSelf /\ N_negative = <<>> /\ call = NoCall /\ od = OdIdle

\* lines 139-153: the call's locals, private to the thread
Compute(t) ==
    /\ thr[t].pc = "idle"
    /\ \E xy \in ThreadCalls(cfg) :
          thr' = [thr EXCEPT ![t] = [pc |-> "l156", x |-> xy[1], y |-> xy[2],
                                     l |-> Locals(cfg, xy[1], xy[2]), ret |-> 0]]
    /\ UNCHANGED <<self, N_negative, call, od, cfg, vic, last>>

Store156(t) ==
    /\ thr[t].pc = "l156"
    /\ vic' = SetPositiveDistance(vic, thr[t].l)
    /\ thr' = [thr EXCEPT ![t].pc = "l157"]
    /\ UNCHANGED <<self, N_negative, call, od, cfg, last>>

Store157(t) ==
    /\ thr[t].pc = "l157"
    /\ vic' = SetLogProb(vic, thr[t].l)
    /\ thr' = [thr EXCEPT ![t].pc = "l158"]
    /\ UNCHANGED <<self, N_negative, call, od, cfg, last>>

Store158(t) ==
    /\ thr[t].pc = "l158"
    /\ vic' = SetLogCondProb(vic, thr[t].l)
    /\ thr' = [thr EXCEPT ![t].pc = "l163"]
    /\ UNCHANGED <<self, N_negative, call, od, cfg, last>>

Return(t) ==
    /\ thr[t].pc = "l163"
    /\ thr' = [thr EXCEPT ![t].pc = "done", ![t].ret = Loss(vic, cfg, thr[t].l)]
    /\ UNCHANGED <<self, N_negative, call, od, cfg, vic, last>>

NextConc ==
    \E t \in Threads :
        Compute(t) \/ Store156(t) \/ Store157(t) \/ Store158(t) \/ Return(t)

SpecConc == InitConc /\ [][NextConc]_vars

----------------------------------------------------------------------------
(* Claims about VICReg_TT_Loss.forward *)

\* The loss of a call on (x, y) under configuration c, from its inputs alone.
LossOf(c, x, y) ==
    c.SIM * Locals(c, x, y).repr_loss
    + c.STD * Locals(c, x, y).std_loss
    + c.COV * Locals(c, x, y).cov_loss

ZeroCall ==
    /\ last.called
    /\ last.x = ZeroBatch(cfg)
    /\ last.y = ZeroBatch(cfg)

\* C7 as stated: on all-zero batches the invariance term is 0, the variance
\* term exactly 1, the covariance term 0 and the loss VICREG_STD_COEFF * 1.
ZeroBatchVarianceOne ==
    ZeroCall =>
        /\ last.l.repr_loss = 0
        /\ last.l.std_loss = EpsInv
        /\ last.l.cov_loss = 0
        /\ last.loss = cfg.STD * EpsInv

\* C7 amended: on all-zero batches the invariance term is 0, the variance term
\* is 1 - sqrt(0.0001) = 0.99, the covariance term 0 and the loss
\* VICREG_STD_COEFF * 0.99.
ZeroBatchVarianceFloor ==
    ZeroCall =>
        /\ last.l.repr_loss = 0
        /\ last.l.std_loss = 9900
        /\ last.l.cov_loss = 0
        /\ last.loss = cfg.STD * 9900

ZeroBatchCalled == ZeroCall /\ cfg.STD > 0 /\ cfg.HIDDEN_DIM >= 2

\* C8: after any sequence of sequential calls the three attributes hold the
\* values of the most recent call's inputs, and the loss returned is that of
\* the call's inputs and the coefficients alone.
DiagnosticsOfLastCall ==
    last.called =>
        LET l == Locals(cfg, last.x, last.y)
        IN  /\ vic.positive_distance = <<l.repr_loss>>
            /\ vic.log_prob = <<- l.cov_loss - l.std_loss>>
            /\ vic.log_cond_prob = <<- l.repr_loss>>
            /\ last.loss = cfg.SIM * l.repr_loss + cfg.STD * l.std_loss
                           + cfg.COV * l.cov_loss

DiagnosticsOverwritten == last.called /\ last.overwrote /\ last.l.cov_loss > 0

\* C10: interleaved with another call on the same instance, a call still
\* returns the loss it returns alone.
InterleavedLossOwn ==
    \A t \in Threads :
        thr[t].pc = "done" => thr[t].ret = LossOf(cfg, thr[t].x, thr[t].y)

\* ... while the attributes can end up holding values of two different calls.
AttributesMixed ==
    /\ \A t \in Threads : thr[t].pc = "done"
    /\ thr[1].l.repr_loss # thr[2].l.repr_loss
    /\ thr[1].l.std_loss + thr[1].l.cov_loss # thr[2].l.std_loss + thr[2].l.cov_loss
    /\ vic.positive_distance = <<thr[2].l.repr_loss>>
    /\ vic.log_prob = <<- thr[1].l.cov_loss - thr[1].l.std_loss>>

=============================================================================
